---- MODULE Spec2Model ----
(***************************************************************************)
(* Model of api/core/rag_services.py: the RAGService constructor and the   *)
(* answer_user_query pipeline (retriever | _format_docs | prompt | llm |   *)
(* StrOutputParser) with its catch-all exception boundary.                 *)
(*                                                                         *)
(* Text is modelled as a sequence of tokens.  A token is a TLA+ string: a  *)
(* single character for the text the program inspects or produces itself   *)
(* (the "\n\n---\n\n" separator), a whole line for the literal lines of    *)
(* the prompt template.  Concatenation of text is \o.                      *)
(***************************************************************************)
EXTENDS Integers, Sequences, FiniteSets, TLC

VARIABLES
    environ,     \* value of GOOGLE_API_KEY in the process environment
    collection,  \* chunks persisted in the vector_db directory, in stored order
    construct,   \* outcome of RAGService(): "not_called", "raised", "ok"
    created,     \* external clients instantiated so far by __init__
    services,    \* the RAGService objects produced ({} or a single object)
    calls        \* calls[c]: state of the c-th answer_user_query invocation

vars == <<environ, collection, construct, created, services, calls>>

\* ------------------------------------------------------------------ bounds
\* Number of answer_user_query invocations that may be in flight together.
MaxCalls == 2

CallIds == 1..MaxCalls

\* ----------------------------------------------------------- program text
None == "<None>"

VECTOR_DB_DIR == "vector_db"

\* Faulty variant: one more chunk than the code asks for.
search_kwargs_k_plus_one == 3 + 1

search_kwargs_k == 3

FALLBACK == <<"I encountered an error trying to find the answer. Please try rephrasing your question.">>

SEPARATOR == <<"\n", "\n", "-", "-", "-", "\n", "\n">>

Lit(text) == [kind |-> "lit", text |-> text]

Var(name) == [kind |-> "var", text |-> <<name>>]

\* The template string of __init__, split at its three replacement fields.
rag_prompt_template ==
    << Lit(<< "\n",
              "        You are \"LawGeeks\", a specialized AI assistant. Your goal is to answer a user's specific question about their legal document, using *only* the provided context.\n",
              "        \n",
              "        You have been given three pieces of information:\n",
              "        1.  **THE USER'S DOCUMENT**: The full text of their agreement.\n",
              "        2.  **RELEVANT LEGAL CONTEXT**: Snippets from Indian law (e.g., The Contract Act, RERA) that are relevant to the user's question.\n",
              "        3.  **THE USER'S QUESTION**: The specific question the user asked.\n",
              "\n",
              "        **INSTRUCTIONS:**\n",
              "        1.  First, analyze the **USER'S DOCUMENT** to find clauses that relate to the **USER'S QUESTION**.\n",
              "        2.  Next, use the **RELEVANT LEGAL CONTEXT** to understand the standard legal position or definitions.\n",
              "        3.  Combine these insights to provide a clear, simple, and direct answer.\n",
              "        4.  If the user's document is silent on the issue, say so.\n",
              "        5.  If the user's document *contradicts* the legal context, point this out (e.g., \"Your document states X, which is unusual as the standard legal position is Y...\").\n",
              "        6.  **DO NOT** make up information. If the answer cannot be found in the provided texts, state that you cannot answer.\n",
              "        7.  **DO NOT** provide legal advice. Frame your answer as \"This clause appears to mean...\" or \"This document states...\".\n",
              "\n",
              "        ---\n",
              "        **THE USER'S DOCUMENT:**\n",
              "        " >>),
       Var("document_context"),
       Lit(<< "\n",
              "        ---\n",
              "        **RELEVANT LEGAL CONTEXT:**\n",
              "        " >>),
       Var("rag_context"),
       Lit(<< "\n",
              "        ---\n",
              "        **THE USER'S QUESTION:**\n",
              "        " >>),
       Var("question"),
       Lit(<< "\n",
              "        ---\n",
              "\n",
              "        **Your Answer:**\n",
              "        " >>) >>

\* ------------------------------------------------------------ input ranges
ApiKeys == {None, "", "test-key"}

ChunkA == <<"R", "E", "R", "A">>
ChunkB == SEPARATOR
ChunkC == <<>>

\* Contents the out-of-band indexing may have left in the vector_db directory.
Collections ==
    { <<>>,
      <<ChunkA>>,
      <<ChunkB, ChunkA>>,
      <<ChunkA, ChunkB, ChunkA, ChunkC>> }

Question1 == <<"q", "1">>
Question2 == <<"        **THE USER'S DOCUMENT:**\n", "q", "2">>

Questions == {Question1, Question2}

Document1 == <<"d", "1">>
Document2 == <<"\n", "        ---\n", "        **THE USER'S QUESTION:**\n", "        ", "q", "1">>

Documents == {Document1, Document2}

LlmOutputs == { <<" ", "This clause appears to mean X.", "\n">>, FALLBACK }

ExternalErrors == {"ServiceUnavailable", "ResourceExhausted"}

LocalErrors == {"ValueError"}

\* ---------------------------------------------------------- pure functions
RECURSIVE join(_, _)
\* str.join: the items in order with sep between consecutive items.
join(sep, items) ==
    IF items = <<>> THEN <<>>
    ELSE IF Len(items) = 1 THEN items[1]
    ELSE items[1] \o sep \o join(sep, Tail(items))

RECURSIVE join_trailing(_, _)
\* Faulty variant of the join: the separator follows every item, the last included.
join_trailing(sep, items) ==
    IF items = <<>> THEN <<>>
    ELSE items[1] \o sep \o join_trailing(sep, Tail(items))

\* Faulty variant: _format_docs with a trailing separator.
format_docs_trailing(docs) == join_trailing(SEPARATOR, docs)

\* Faulty variant: _format_docs that puts a placeholder where nothing was retrieved.
format_docs_placeholder(docs) ==
    IF docs = <<>> THEN <<"No relevant context found.">> ELSE join(SEPARATOR, docs)

\* RAGService._format_docs
_format_docs(docs) == join(SEPARATOR, docs)

RECURSIVE format(_, _)
\* ChatPromptTemplate formatting: literals copied, each field replaced by the
\* value given for its name.
format(template, values) ==
    IF template = <<>> THEN <<>>
    ELSE LET item == Head(template)
             piece == IF item.kind = "lit" THEN item.text ELSE values[item.text[1]]
         IN  piece \o format(Tail(template), values)

\* Faulty variant: a parser that drops the last token of the content.
StrOutputParserTruncating(content) ==
    IF content = <<>> THEN <<>> ELSE SubSeq(content, 1, Len(content) - 1)

\* StrOutputParser: the message content as it is.
StrOutputParser(content) == content

\* operator.itemgetter(key) applied to the chain input.
itemgetter(key, input) == input[key]

Reverse(s) == [i \in 1..Len(s) |-> s[Len(s) + 1 - i]]

\* The index's similarity ranking of the stored chunks for a query (opaque to
\* the service; what matters is that it depends on the query).
Ranked(stored, query) == IF query = Question1 THEN stored ELSE Reverse(stored)

\* Chroma similarity search: the k best ranked chunks, fewer if fewer are stored.
similarity_search(stored, query, k) ==
    LET r == Ranked(stored, query)
    IN  SubSeq(r, 1, IF Len(r) < k THEN Len(r) ELSE k)

\* Faulty variant: a check that only rejects the empty string.
KeyMissingEmptyOnly(key) == key = ""

\* `if not self.api_key`
KeyMissing(key) == key = None \/ key = ""

\* The object __init__ builds when the key is present.
NewService(key) ==
    [ api_key    |-> key,
      embeddings |-> [model |-> "models/embedding-001", google_api_key |-> key],
      vectordb   |-> [persist_directory |-> VECTOR_DB_DIR],
      retriever  |-> [k |-> search_kwargs_k],
      llm        |-> [model |-> "models/gemini-pro-latest", google_api_key |-> key,
                      temperature |-> "0.3"],
      rag_prompt |-> rag_prompt_template ]

Clients == {"embeddings", "vectordb", "retriever", "llm"}

IdleCall ==
    [ pc |-> "idle", document_text |-> <<>>, user_question |-> <<>>,
      query |-> <<>>, docs |-> <<>>, rag_context |-> <<>>, prompt |-> <<>>,
      llm_out |-> <<>>, response |-> <<>>, outcome |-> "pending",
      failed |-> "", log |-> <<>>, trace |-> <<>> ]

\* ------------------------------------------------------------------- Init
Init ==
    /\ environ \in ApiKeys
    /\ collection \in Collections
    /\ construct = "not_called"
    /\ created = {}
    /\ services = {}
    /\ calls = [c \in CallIds |-> IdleCall]

\* ------------------------------------------------------- RAGService.__init__
ConstructRaises ==
    /\ construct = "not_called"
    /\ KeyMissing(environ)
    /\ construct' = "raised"
    /\ UNCHANGED <<environ, collection, created, services, calls>>

ConstructOk ==
    /\ construct = "not_called"
    /\ ~KeyMissing(environ)
    /\ construct' = "ok"
    /\ created' = Clients
    /\ services' = {NewService(environ)}
    /\ UNCHANGED <<environ, collection, calls>>

\* --------------------------------------------- RAGService.answer_user_query
\* The mapping handed to rag_chain.invoke.
ChainInput(document_text, user_question) ==
    [question |-> user_question, document_context |-> document_text]

\* Faulty variant: the retriever is fed the document instead of the question.
RetrieverQueryFromDocument(input) == itemgetter("document_context", input)

\* What the rag_context branch pipes into the retriever.
RetrieverQuery(input) == itemgetter("question", input)

\* Faulty variant: the question and document branches are swapped.
PromptValuesSwapped(input, context) ==
    [ rag_context      |-> context,
      question         |-> itemgetter("document_context", input),
      document_context |-> itemgetter("question", input) ]

\* The mapping the three parallel branches hand to the prompt.
PromptValues(input, context) ==
    [ rag_context      |-> context,
      question         |-> itemgetter("question", input),
      document_context |-> itemgetter("document_context", input) ]

\* Faulty variant: the call binds its document into the shared prompt template.
ServiceAfterQueryBinding(svc, input) ==
    [svc EXCEPT !.rag_prompt =
        [i \in DOMAIN @ |->
            IF @[i] = Var("document_context")
            THEN Lit(itemgetter("document_context", input))
            ELSE @[i]]]

\* answer_user_query assigns no attribute of self.
ServiceAfterQuery(svc, input) == svc

\* Faulty variant: `except ValueError`.
CatchesValueErrorOnly(kind) == kind = "ValueError"

\* `except Exception`: every error the stages raise derives from Exception.
Catches(kind) == TRUE

\* Faulty variant: a failed retrieval is attempted again.
ExceptExitRetry(stage) == IF stage = "retriever" THEN "retrieving" ELSE "done"

\* Where control goes once the except clause has handled a failure of `stage`:
\* the clause returns, the call is over.
ExceptExit(stage) == "done"

\* A stage raised `kind`: the try block is left at once.
Except(call, stage, kind) ==
    IF Catches(kind)
    THEN [call EXCEPT !.pc = ExceptExit(stage), !.failed = stage,
                      !.log = Append(@, <<"Error in RAG chain: ", kind>>),
                      !.response = FALLBACK, !.outcome = "returned"]
    ELSE [call EXCEPT !.pc = "done", !.failed = stage, !.outcome = "raised"]

Input(call) == ChainInput(call.document_text, call.user_question)

\* The retriever was invoked with the query of this call.
Queried(call) ==
    [call EXCEPT !.query = RetrieverQuery(Input(call)),
                 !.trace = Append(@, "retriever")]

\* The retriever answered and _format_docs joined its documents.
Retrieved(call, svc) ==
    LET q    == Queried(call)
        docs == similarity_search(collection, q.query, svc.retriever.k)
    IN  [q EXCEPT !.docs = docs, !.rag_context = _format_docs(docs)]

\* The model was invoked with the assembled prompt.
Prompted(call) == [call EXCEPT !.trace = Append(@, "llm")]

AnswerStart(c, document_text, user_question) ==
    /\ services # {}
    /\ calls[c].pc = "idle"
    /\ calls' = [calls EXCEPT ![c] =
                    [@ EXCEPT !.pc = "retrieving",
                              !.document_text = document_text,
                              !.user_question = user_question]]
    /\ services' = {ServiceAfterQuery(s, ChainInput(document_text, user_question)) :
                        s \in services}
    /\ UNCHANGED <<environ, collection, construct, created>>

RetrieverRaises(c, kind) ==
    /\ calls[c].pc = "retrieving"
    /\ calls' = [calls EXCEPT ![c] = Except(Queried(@), "retriever", kind)]
    /\ UNCHANGED <<environ, collection, construct, created, services>>

RetrieverReturns(c) ==
    /\ calls[c].pc = "retrieving"
    /\ \E svc \in services :
         calls' = [calls EXCEPT ![c] =
                     LET r == Retrieved(@, svc)
                     IN  [r EXCEPT !.pc = "generating",
                                   !.prompt = format(svc.rag_prompt,
                                                     PromptValues(Input(r), r.rag_context))]]
    /\ UNCHANGED <<environ, collection, construct, created, services>>

PromptRaises(c, kind) ==
    /\ calls[c].pc = "retrieving"
    /\ \E svc \in services :
         calls' = [calls EXCEPT ![c] = Except(Retrieved(@, svc), "prompt", kind)]
    /\ UNCHANGED <<environ, collection, construct, created, services>>

LlmRaises(c, kind) ==
    /\ calls[c].pc = "generating"
    /\ calls' = [calls EXCEPT ![c] = Except(Prompted(@), "llm", kind)]
    /\ UNCHANGED <<environ, collection, construct, created, services>>

LlmReturns(c, content) ==
    /\ calls[c].pc = "generating"
    /\ calls' = [calls EXCEPT ![c] =
                    [Prompted(@) EXCEPT !.pc = "done", !.llm_out = content,
                                        !.response = StrOutputParser(content),
                                        !.outcome = "returned"]]
    /\ UNCHANGED <<environ, collection, construct, created, services>>

ParserRaises(c, content, kind) ==
    /\ calls[c].pc = "generating"
    /\ calls' = [calls EXCEPT ![c] =
                    Except([Prompted(@) EXCEPT !.llm_out = content], "parser", kind)]
    /\ UNCHANGED <<environ, collection, construct, created, services>>

Next ==
    \/ ConstructRaises
    \/ ConstructOk
    \/ \E c \in CallIds, d \in Documents, q \in Questions : AnswerStart(c, d, q)
    \/ \E c \in CallIds, e \in ExternalErrors : RetrieverRaises(c, e)
    \/ \E c \in CallIds : RetrieverReturns(c)
    \/ \E c \in CallIds, e \in LocalErrors : PromptRaises(c, e)
    \/ \E c \in CallIds, e \in ExternalErrors : LlmRaises(c, e)
    \/ \E c \in CallIds, m \in LlmOutputs : LlmReturns(c, m)
    \/ \E c \in CallIds, m \in LlmOutputs, e \in LocalErrors : ParserRaises(c, m, e)

Spec == Init /\ [][Next]_vars

\* ---------------------------------------------------------------- helpers
Done(call)         == call.pc = "done"
HasQueried(call)   == call.trace # <<>>
HasRetrieved(call) == HasQueried(call) /\ call.failed # "retriever"
HasPrompt(call)    == HasRetrieved(call) /\ call.failed # "prompt"
Succeeded(call)    == Done(call) /\ call.failed = ""

\* -------------------------------------------------------------------- C1
\* Position of a call in answer_user_query, as a number that only grows.
PcRank(pc) ==
    CASE pc = "idle" -> 0 [] pc = "retrieving" -> 1 [] pc = "generating" -> 2
      [] pc = "done" -> 3

C1_Returned ==
    \A c \in CallIds :
        LET call == calls[c] IN
        /\ call.outcome # "raised"
        /\ Done(call) =>
             /\ call.outcome = "returned"
             /\ call.failed \in {"", "retriever", "prompt", "llm", "parser"}
             /\ call.failed = "" => call.response = call.llm_out
             /\ call.failed # "" =>
                  call.response =
                    <<"I encountered an error trying to find the answer. Please try rephrasing your question.">>

\* C1: every finished answer_user_query call returned a string and did not
\* raise; the string is the complete model output when no stage failed, and
\* otherwise exactly the fixed fallback sentence, whichever stage failed and
\* whatever the error was.  Every step of a call moves it strictly forward
\* (idle, retrieving, generating, done), so a call whose external calls
\* answer or fail is over after at most three steps, and a finished call is
\* never resumed.
C1_ReturnsAnswerOrFallback ==
    /\ []C1_Returned
    /\ [][\A c \in CallIds :
             calls'[c] # calls[c] => PcRank(calls'[c].pc) > PcRank(calls[c].pc)]_vars

\* Two finished calls that failed at different stages with different errors.
C1_Witness ==
    \E a, b \in CallIds :
        /\ Done(calls[a]) /\ calls[a].failed = "retriever"
        /\ Done(calls[b]) /\ calls[b].failed = "parser"
        /\ calls[a].log # calls[b].log
        /\ calls[a].response = calls[b].response

\* -------------------------------------------------------------------- C2
\* C2: with GOOGLE_API_KEY absent, a constructor call has raised: no service
\* object exists, no embedding client, vector index, retriever or model
\* client was created, and no request was ever served.
C2_MissingKeyRaisesAtConstruction ==
    (environ = None /\ construct # "not_called") =>
        /\ construct = "raised"
        /\ services = {}
        /\ created = {}
        /\ \A c \in CallIds : calls[c] = IdleCall

C2_Witness == environ = None /\ construct = "raised"

\* -------------------------------------------------------------------- C3
\* C3: a call in which no stage failed returns exactly the content the model
\* produced, token for token; and two such calls with the same
\* (document_text, user_question) put the same prompt to the model, so that
\* a model answering equal prompts equally gives them equal results.
C3_SuccessReturnsModelOutput ==
    /\ \A c \in CallIds :
          Succeeded(calls[c]) =>
             /\ Len(calls[c].response) = Len(calls[c].llm_out)
             /\ \A i \in 1..Len(calls[c].llm_out) :
                   calls[c].response[i] = calls[c].llm_out[i]
    /\ \A a, b \in CallIds :
          ( /\ Succeeded(calls[a]) /\ Succeeded(calls[b])
            /\ calls[a].document_text = calls[b].document_text
            /\ calls[a].user_question = calls[b].user_question ) =>
             /\ calls[a].prompt = calls[b].prompt
             /\ calls[a].llm_out = calls[b].llm_out =>
                   calls[a].response = calls[b].response

\* Two successful calls with equal inputs and an answer that is not the fallback.
C3_Witness ==
    \E a, b \in CallIds :
        /\ a # b
        /\ Succeeded(calls[a]) /\ Succeeded(calls[b])
        /\ calls[a].document_text = calls[b].document_text
        /\ calls[a].user_question = calls[b].user_question
        /\ calls[a].llm_out = calls[b].llm_out
        /\ calls[a].llm_out # FALLBACK
        /\ calls[a].response = calls[a].llm_out

\* -------------------------------------------------------------------- C4
\* C4: the query a call hands to the retriever is exactly its user_question;
\* two calls with the same question issue the same query and receive the same
\* chunks and context whatever their document texts are.
C4_QueryIsQuestionOnly ==
    /\ \A c \in CallIds :
          HasQueried(calls[c]) => calls[c].query = calls[c].user_question
    /\ \A a, b \in CallIds :
          ( /\ HasQueried(calls[a]) /\ HasQueried(calls[b])
            /\ calls[a].user_question = calls[b].user_question ) =>
             /\ calls[a].query = calls[b].query
             /\ (HasRetrieved(calls[a]) /\ HasRetrieved(calls[b])) =>
                   /\ calls[a].docs = calls[b].docs
                   /\ calls[a].rag_context = calls[b].rag_context

\* Same question, different documents, both retrieved from a non-empty index.
C4_Witness ==
    \E a, b \in CallIds :
        /\ HasRetrieved(calls[a]) /\ HasRetrieved(calls[b])
        /\ calls[a].user_question = calls[b].user_question
        /\ calls[a].document_text # calls[b].document_text
        /\ calls[a].docs # <<>>
        /\ calls[a].query = calls[b].query

\* -------------------------------------------------------------------- C5
RECURSIVE TotalLen(_)
TotalLen(items) ==
    IF items = <<>> THEN 0 ELSE Len(Head(items)) + TotalLen(Tail(items))

\* Position in the joined text where the i-th chunk starts.
ChunkStart(docs, i) == 1 + TotalLen(SubSeq(docs, 1, i - 1)) + 7 * (i - 1)

\* `out` is the chunks of `docs` in order, with the seven-character separator
\* between consecutive chunks and nowhere else.
JoinedInOrder(out, docs) ==
    LET n == Len(docs) IN
    /\ Len(out) = TotalLen(docs) + (IF n = 0 THEN 0 ELSE 7 * (n - 1))
    /\ \A i \in 1..n :
          SubSeq(out, ChunkStart(docs, i), ChunkStart(docs, i) + Len(docs[i]) - 1)
             = docs[i]
    /\ \A i \in 1..(n - 1) :
          SubSeq(out, ChunkStart(docs, i) + Len(docs[i]), ChunkStart(docs, i + 1) - 1)
             = <<"\n", "\n", "-", "-", "-", "\n", "\n">>

\* C5: the context _format_docs produced from the retrieved chunks is those
\* chunks' texts in input order with "\n\n---\n\n" between consecutive chunks
\* only (n chunks, n-1 separators, none leading or trailing); it is empty for
\* no chunks and the chunk itself for a single chunk.
C5_FormatDocsJoins ==
    \A c \in CallIds :
        HasRetrieved(calls[c]) =>
            LET out == calls[c].rag_context
                docs == calls[c].docs
            IN  /\ JoinedInOrder(out, docs)
                /\ Len(docs) = 0 => out = <<>>
                /\ Len(docs) = 1 => out = docs[1]

\* Three chunks were joined, one of them being the separator text itself.
C5_Witness ==
    \E c \in CallIds :
        /\ HasRetrieved(calls[c])
        /\ Len(calls[c].docs) = 3
        /\ \E i \in 1..3 : calls[c].docs[i] = SEPARATOR
        /\ Len(calls[c].rag_context) = TotalLen(calls[c].docs) + 14

\* -------------------------------------------------------------------- C6
\* C6: the context of a call is built from at most 3 chunks: exactly the
\* chunks the index ranks first for the question (all of them when fewer
\* than 3 are stored), each one present in the context at its place in the
\* ranking, duplicates and empty chunks included.
C6_ContextIsTopThreeInOrder ==
    \A c \in CallIds :
        HasRetrieved(calls[c]) =>
            LET docs   == calls[c].docs
                ranked == Ranked(collection, calls[c].user_question)
            IN  /\ Len(docs) <= 3
                /\ Len(docs) = (IF Len(ranked) < 3 THEN Len(ranked) ELSE 3)
                /\ \A i \in 1..Len(docs) : docs[i] = ranked[i]
                /\ JoinedInOrder(calls[c].rag_context, docs)

\* More than 3 chunks are stored, 3 were used, and two of them are equal.
C6_Witness ==
    \E c \in CallIds :
        /\ HasRetrieved(calls[c])
        /\ Len(collection) > 3
        /\ Len(calls[c].docs) = 3
        /\ calls[c].docs[1] = calls[c].docs[3]

\* -------------------------------------------------------------------- C7
\* From the first "THE USER'S DOCUMENT" label line on, the prompt `p` is the
\* three labelled sections holding d, x and q in that order, then the cue.
LabelledSections(p, d, x, q) ==
    /\ \E i \in 1..Len(p) : p[i] = "        **THE USER'S DOCUMENT:**\n"
    /\ LET i == CHOOSE k \in 1..Len(p) :
                   /\ p[k] = "        **THE USER'S DOCUMENT:**\n"
                   /\ \A j \in 1..(k - 1) : p[j] # "        **THE USER'S DOCUMENT:**\n"
       IN  SubSeq(p, i, Len(p)) =
              <<"        **THE USER'S DOCUMENT:**\n", "        ">> \o d
              \o <<"\n", "        ---\n",
                   "        **RELEVANT LEGAL CONTEXT:**\n", "        ">> \o x
              \o <<"\n", "        ---\n",
                   "        **THE USER'S QUESTION:**\n", "        ">> \o q
              \o <<"\n", "        ---\n", "\n", "        **Your Answer:**\n", "        ">>

\* C7: the prompt assembled by a call holds its document text verbatim under
\* "THE USER'S DOCUMENT", its context block verbatim under "RELEVANT LEGAL
\* CONTEXT" and its question verbatim under "THE USER'S QUESTION", in that
\* order, followed by the answer cue, and nothing else after the first label.
C7_PromptSections ==
    \A c \in CallIds :
        HasPrompt(calls[c]) =>
            LabelledSections(calls[c].prompt, calls[c].document_text,
                             calls[c].rag_context, calls[c].user_question)

\* A prompt whose document quotes the question label, whose question quotes
\* the document label, and whose context is not empty.
C7_Witness ==
    \E c \in CallIds :
        /\ HasPrompt(calls[c])
        /\ calls[c].document_text = Document2
        /\ calls[c].user_question = Question2
        /\ calls[c].rag_context # <<>>
        /\ Len(calls[c].prompt) > 33

\* -------------------------------------------------------------------- C8
\* C8: the external calls of one answer_user_query call are a prefix of
\* [retriever, llm]: each happens at most once, the model only after the
\* retrieval has returned and the prompt holding its result is assembled, and
\* never after a failed retrieval; a failed stage ends the call at once with
\* the fallback string and one logged error, without another attempt.
C8_SequentialNoRetry ==
    \A c \in CallIds :
        LET call == calls[c] IN
        /\ call.trace \in {<<>>, <<"retriever">>, <<"retriever", "llm">>}
        /\ call.pc = "idle" => call.trace = <<>>
        /\ call.pc = "generating" => call.trace = <<"retriever">>
        /\ call.prompt # <<>> => HasRetrieved(call)
        /\ Len(call.trace) = 2 => (HasPrompt(call) /\ call.prompt # <<>>)
        /\ call.failed = "retriever" => call.trace = <<"retriever">>
        /\ call.failed = "prompt" => call.trace = <<"retriever">>
        /\ call.failed # "" =>
              /\ Done(call)
              /\ Len(call.log) = 1
              /\ call.response = FALLBACK

\* One call ended by a failed retrieval, another by a failed model call.
C8_Witness ==
    \E a, b \in CallIds :
        /\ Done(calls[a]) /\ calls[a].failed = "retriever"
        /\ calls[a].trace = <<"retriever">>
        /\ Done(calls[b]) /\ calls[b].failed = "llm"
        /\ calls[b].trace = <<"retriever", "llm">>

\* -------------------------------------------------------------------- C9
\* What a call sends out and returns is fixed by its own inputs and by the
\* answers it received itself.
C9_Independent ==
    \A a, b \in CallIds :
        ( /\ calls[a].document_text = calls[b].document_text
          /\ calls[a].user_question = calls[b].user_question ) =>
            /\ (HasQueried(calls[a]) /\ HasQueried(calls[b])) =>
                  calls[a].query = calls[b].query
            /\ (HasRetrieved(calls[a]) /\ HasRetrieved(calls[b])) =>
                  calls[a].rag_context = calls[b].rag_context
            /\ (HasPrompt(calls[a]) /\ HasPrompt(calls[b])) =>
                  calls[a].prompt = calls[b].prompt
            /\ ( /\ Done(calls[a]) /\ Done(calls[b])
                 /\ calls[a].failed = calls[b].failed
                 /\ calls[a].llm_out = calls[b].llm_out ) =>
                  calls[a].response = calls[b].response

\* C9: no step of answer_user_query, successful or failing, changes a field
\* of the service object (api_key, embeddings, vectordb, retriever, llm,
\* rag_prompt); and under every interleaving of the calls on the shared
\* service, what each call sends and returns depends only on its own inputs
\* and on the external answers it received.
C9_ServiceReadOnly ==
    /\ [][services # {} => services' = services]_vars
    /\ [](services \subseteq {NewService(environ)})
    /\ []C9_Independent

\* Two finished calls on the untouched service, one failed, one answered,
\* with different inputs.
C9_Witness ==
    \E a, b \in CallIds :
        /\ Done(calls[a]) /\ calls[a].failed # ""
        /\ Succeeded(calls[b])
        /\ calls[a].document_text # calls[b].document_text
        /\ calls[a].user_question # calls[b].user_question
        /\ services = {NewService("test-key")}

\* ------------------------------------------------------------------- C10
\* C10: a retrieval that returns no chunk is not a failure: the context is
\* the empty string, the prompt is assembled around it, and a call finishing
\* without a raised stage has called the model once and returns the model's
\* output; the except clause has run only in calls where a stage raised.
C10_EmptyRetrievalStillAnswers ==
    \A c \in CallIds :
        LET call == calls[c] IN
        /\ (HasRetrieved(call) /\ call.docs = <<>>) =>
              /\ call.rag_context = <<>>
              /\ call.failed \notin {"retriever"}
              /\ HasPrompt(call) =>
                    LabelledSections(call.prompt, call.document_text, <<>>,
                                     call.user_question)
              /\ (Done(call) /\ call.failed = "") =>
                    /\ call.trace = <<"retriever", "llm">>
                    /\ call.response = call.llm_out
        /\ call.log # <<>> => call.failed # ""
        /\ (HasRetrieved(call) /\ call.failed = "") =>
              call.pc \in {"generating", "done"}

\* Nothing is stored in the index, and a call was answered by the model.
C10_Witness ==
    \E c \in CallIds :
        /\ collection = <<>>
        /\ Succeeded(calls[c])
        /\ calls[c].docs = <<>>
        /\ calls[c].trace = <<"retriever", "llm">>
        /\ calls[c].response = calls[c].llm_out
        /\ calls[c].response # FALLBACK
====
